---- MODULE Spec2Model ----
(***************************************************************************)
(* Simulated annealing for the travelling salesman problem (src/main.py).  *)
(*                                                                         *)
(* The model follows one run of the script: argument validation, seeding,  *)
(* point loading, the initial shuffle, and the animation loop in which     *)
(* matplotlib's FuncAnimation calls animate(i), which performs one         *)
(* simulated_annealing step with temperature 1 / ((i % reheat) + 1).       *)
(*                                                                         *)
(* Numbers.  Coordinates are integers.  A distance or a tour length is a   *)
(* pair <<a, b>> standing for a + b * sqrt(2), which is exact for every    *)
(* point set used below (pairwise distances are integers or integer        *)
(* multiples of sqrt(2)).  A temperature is a fraction <<num, den>>.       *)
(*                                                                         *)
(* Randomness.  randint draws are chosen with \E from the range the call   *)
(* names.  The uniform draw u of np.random.random() lies in [0, 1); it is  *)
(* represented by the one bit the code reads from it: whether u is at most *)
(* exp(x) for the exponent x at hand when x < 0 (for x >= 0, exp(x) >= 1   *)
(* and every u is below it).                                               *)
(***************************************************************************)
EXTENDS Integers, Sequences, FiniteSets

VARIABLES
    pc,               \* position of the script
    args,             \* parsed command line (lines 65-71)
    points,           \* the list `points` (lines 91-98)
    current_state,    \* the global current_state (line 100, 114)
    next_state,       \* the last candidate built by get_random_successor
    objective_values, \* the list objective_values (line 101, 115)
    temperature,      \* the temperature of the last animate call (line 113)
    frame_seq,        \* FuncAnimation's frame iterator: next index to yield
    initial_state,    \* history: the tour returned by get_random_state
    tours,            \* history: the tour drawn by each animate call
    twin              \* a second run of the same command line (seed study)

vars == <<pc, args, points, current_state, next_state, objective_values,
          temperature, frame_seq, initial_state, tours, twin>>

-----------------------------------------------------------------------------
(* Bounds of the model *)

MaxSteps == 4
Window == 2
MaxIter == 2
MaxReheat == 2

-----------------------------------------------------------------------------
(* Arithmetic on a + b * sqrt(2) *)

\* Operands are bound with x \in {e}, so that each is evaluated once.

Zero == <<0, 0>>

Only(S) == CHOOSE x \in S : TRUE

Plus(l1, l2) == Only({<<a[1] + b[1], a[2] + b[2]>> : a \in {l1}, b \in {l2}})

Minus(l1, l2) == Only({<<a[1] - b[1], a[2] - b[2]>> : a \in {l1}, b \in {l2}})

\* sign of p + q * sqrt(2): -1, 0 or 1
Sign(l) ==
    Only({IF p = 0 /\ q = 0 THEN 0
          ELSE IF p >= 0 /\ q >= 0 THEN 1
          ELSE IF p <= 0 /\ q <= 0 THEN -1
          ELSE IF p > 0 THEN (IF p * p > 2 * q * q THEN 1 ELSE -1)
          ELSE (IF 2 * q * q > p * p THEN 1 ELSE -1) : p \in {l[1]}, q \in {l[2]}})

\* s ** 0.5 for s a square or twice a square
Sqrt(s) ==
    Only({IF \E k \in 0..t : k * k = t
          THEN <<CHOOSE k \in 0..t : k * k = t, 0>>
          ELSE <<0, CHOOSE k \in 0..t : 2 * k * k = t>> : t \in {s}})

-----------------------------------------------------------------------------
(* The functions of main.py *)

calculate_distance(point1, point2) ==
    Only({Sqrt((p1[1] - p2[1]) * (p1[1] - p2[1]) + (p1[2] - p2[2]) * (p1[2] - p2[2])) :
          p1 \in {point1}, p2 \in {point2}})

\* np.random.randint(low, high): the half-open range [low, high)
randint(low, high) == low..(high - 1)

\* np.random.shuffle: every reordering of the rows
Shuffles(data) ==
    LET n == Len(data)
        Bij == {p \in [1..n -> 1..n] : \A i, j \in 1..n : p[i] = p[j] => i = j}
    IN  {[i \in 1..n |-> data[p[i]]] : p \in Bij}

get_random_state(data) == Shuffles(data)

\* the range both indices of get_random_successor are drawn from
SuccessorIndices_incl(n) == randint(0, n)

SuccessorIndices(n) == randint(0, n - 1)

\* state[start:end] = state[start:end][::-1] on a copy (0-based, end exclusive)
get_random_successor_dup(current_state_, index1, index2) ==
    LET start == IF index1 <= index2 THEN index1 ELSE index2
        end == IF index1 <= index2 THEN index2 ELSE index1
    IN  [i \in 1..Len(current_state_) |->
            IF start + 1 <= i /\ i <= end
            THEN current_state_[end]
            ELSE current_state_[i]]

get_random_successor(current_state_, index1, index2) ==
    LET start == IF index1 <= index2 THEN index1 ELSE index2
        end == IF index1 <= index2 THEN index2 ELSE index1
    IN  [i \in 1..Len(current_state_) |->
            IF start + 1 <= i /\ i <= end
            THEN current_state_[start + end + 1 - i]
            ELSE current_state_[i]]

RECURSIVE SumConsecutive(_, _)
\* the loop of objective_function: pairs (i, i+1) for 0-based i in range(m)
SumConsecutive(state, m) ==
    IF m <= 0 THEN Zero
    ELSE Plus(SumConsecutive(state, m - 1),
              calculate_distance(state[m], state[m + 1]))

objective_function(state) ==
    Only({Plus(SumConsecutive(st, Len(st) - 1), calculate_distance(st[Len(st)], st[1])) :
          st \in {state}})

\* u <= np.exp(x), where xsign is the sign of x and uBelow the draw's bit
LeqExp(uBelow, xsign) == IF xsign >= 0 THEN TRUE ELSE uBelow

\* sign of -delta_cost / temperature
ExponentSign(delta_cost, temp) ==
    LET tsign == IF temp[1] * temp[2] > 0 THEN 1 ELSE -1
    IN  (0 - Sign(delta_cost)) * tsign

Accepts_greedy(delta_cost, temp, uBelow) == Sign(delta_cost) < 0

Accepts_flipped(delta_cost, temp, uBelow) ==
    Sign(delta_cost) > 0 \/ LeqExp(uBelow, 0 - ExponentSign(delta_cost, temp))

\* the condition of line 54
Accepts(delta_cost, temp, uBelow) ==
    Sign(delta_cost) < 0 \/ LeqExp(uBelow, ExponentSign(delta_cost, temp))

\* whether line 54 evaluates np.random.random() (the `or` short-circuits)
DrawsUniform(current_state_, index1, index2) ==
    Sign(Minus(objective_function(get_random_successor(current_state_, index1, index2)),
               objective_function(current_state_))) >= 0

simulated_annealing_lead(current_state_, temp, index1, index2, uBelow) ==
    LET current_obj_value == objective_function(current_state_)
        next_state_ == get_random_successor(current_state_, index1, index2)
        delta_cost == Minus(objective_function(next_state_), current_obj_value)
    IN  IF Accepts(delta_cost, temp, uBelow)
        THEN [state |-> next_state_, obj |-> objective_function(next_state_)]
        ELSE [state |-> current_state_, obj |-> current_obj_value]

\* lines 48-57: the next state and the current state's objective value
simulated_annealing(current_state_, temp, index1, index2, uBelow) ==
    LET current_obj_value == objective_function(current_state_)
        next_state_ == get_random_successor(current_state_, index1, index2)
        delta_cost == Minus(objective_function(next_state_), current_obj_value)
    IN  IF Accepts(delta_cost, temp, uBelow)
        THEN [state |-> next_state_, obj |-> current_obj_value]
        ELSE [state |-> current_state_, obj |-> current_obj_value]

\* line 113
Temperature(i, reheat) == <<1, (i % reheat) + 1>>

-----------------------------------------------------------------------------
(* The command line and the files it may name *)

None == [set |-> FALSE, v |-> 0]

Some(n) == [set |-> TRUE, v |-> n]

\* Python truth of an optional int: None and 0 are false
Truthy(opt) == opt.set /\ opt.v # 0

\* the rows of the .csv files a run may be given (absent keys: no such file)
FileRows(f) ==
    CASE f = "square.csv" -> <<<<0, 0>>, <<1, 0>>, <<1, 1>>, <<0, 1>>>>
      [] f = "line3.csv" -> <<<<0, 0>>, <<1, 0>>, <<2, 0>>>>
      [] f = "line5.csv" -> <<<<0, 0>>, <<1, 0>>, <<2, 0>>, <<3, 0>>, <<4, 0>>>>
      [] f = "dup4.csv" -> <<<<0, 0>>, <<1, 0>>, <<0, 0>>, <<1, 1>>>>
      [] f = "two.csv" -> <<<<0, 0>>, <<1, 0>>>>
      [] f = "one.csv" -> <<<<0, 0>>>>
      [] OTHER -> <<>>

ExistingFiles ==
    {"square.csv", "line3.csv", "line5.csv", "dup4.csv", "two.csv", "one.csv", "empty.csv"}

\* os.path.exists
FileExists(f) == f \in ExistingFiles

\* the values np.random.randint(1, 100) is sampled at
CoordDraws == {1, 2}

FileArgs == {"", "square.csv", "line3.csv", "two.csv", "one.csv", "empty.csv", "missing.csv"}

CountArgs == {None} \cup {Some(n) : n \in {-1, 0, 2, 3}}

IterArgs == {None} \cup {Some(n) : n \in -1..MaxIter}

ReheatArgs == 0..MaxReheat

SeedArgs == {None} \cup {Some(n) : n \in -1..1}

NoTwin ==
    [active |-> FALSE, synced |-> FALSE, points |-> <<>>, current_state |-> <<>>,
     objective_values |-> <<>>, tours |-> <<>>]

ArgSpace(files, counts, iters, reheats, seeds) ==
    [file : files, count : counts, iterations : iters, reheat : reheats, seed : seeds]

InitWith(argspace, twinActive) ==
    /\ pc = "validate"
    /\ args \in argspace
    /\ points = <<>>
    /\ current_state = <<>>
    /\ next_state = <<>>
    /\ objective_values = <<>>
    /\ temperature = <<0, 1>>
    /\ frame_seq = 0
    /\ initial_state = <<>>
    /\ tours = <<>>
    /\ twin = [NoTwin EXCEPT !.active = twinActive]

\* every command line over the argument sets above without a seed, and one
\* command line for each of the two larger files
Init ==
    InitWith(ArgSpace(FileArgs, CountArgs, IterArgs, ReheatArgs, {None})
             \cup ArgSpace({"line5.csv", "dup4.csv"}, {None}, {Some(2)}, {2}, {None}), FALSE)

-----------------------------------------------------------------------------
(* Lines 73-85: the outcome of argument validation.  exit_error prints and  *)
(* exits; line 79 formats args.data, an attribute the parser never defines, *)
(* so that branch ends in an AttributeError instead.                        *)

ValidationOutcome(a) ==
    IF a.file # "" /\ Truthy(a.count) THEN "exit_error"
    ELSE IF a.file = "" /\ ~Truthy(a.count) THEN "exit_error"
    ELSE IF a.file # "" /\ ~FileExists(a.file) THEN "crashed"
    ELSE IF Truthy(a.count) /\ a.count.v < 3 THEN "exit_error"
    ELSE IF Truthy(a.iterations) /\ a.iterations.v < 1 THEN "exit_error"
    ELSE IF a.reheat < 1 THEN "exit_error"
    ELSE "seed"

Validate ==
    /\ pc = "validate"
    /\ pc' = ValidationOutcome(args)
    /\ UNCHANGED <<args, points, current_state, next_state, objective_values,
                   temperature, frame_seq, initial_state, tours, twin>>

\* lines 87-88: np.random.seed is called only for a truthy seed, and raises
\* ValueError for a negative one
SeedOutcome(a) ==
    IF ~Truthy(a.seed) THEN "unseeded"
    ELSE IF a.seed.v < 0 THEN "crashed"
    ELSE "seeded"

Seed ==
    /\ pc = "seed"
    /\ pc' = IF SeedOutcome(args) = "crashed" THEN "crashed" ELSE "load"
    /\ twin' = IF twin.active
               THEN [twin EXCEPT !.synced = (SeedOutcome(args) = "seeded")]
               ELSE twin
    /\ UNCHANGED <<args, points, current_state, next_state, objective_values,
                   temperature, frame_seq, initial_state, tours>>

\* lines 91-98: the lists `points` can become
LoadResults(a) ==
    IF a.file # "" THEN {FileRows(a.file)}
    ELSE IF Truthy(a.count)
    THEN [1..a.count.v -> CoordDraws \X CoordDraws]
    ELSE {<<>>}

LoadPoints ==
    /\ pc = "load"
    /\ points' \in LoadResults(args)
    /\ \E p2 \in LoadResults(args) :
          /\ twin.synced => p2 = points'
          /\ twin' = IF twin.active THEN [twin EXCEPT !.points = p2] ELSE twin
    /\ pc' = "shuffle"
    /\ UNCHANGED <<args, current_state, next_state, objective_values,
                   temperature, frame_seq, initial_state, tours>>

\* lines 100-101
InitialState ==
    /\ pc = "shuffle"
    /\ current_state' \in get_random_state(points)
    /\ initial_state' = current_state'
    /\ objective_values' = <<>>
    /\ \E s2 \in get_random_state(twin.points) :
          /\ (twin.synced /\ twin.points = points) => s2 = current_state'
          /\ twin' = IF twin.active THEN [twin EXCEPT !.current_state = s2] ELSE twin
    /\ pc' = "show"
    /\ UNCHANGED <<args, points, next_state, temperature, frame_seq, tours>>

-----------------------------------------------------------------------------
(* Lines 110-115: animate(i), with the draws of the step it performs.       *)
(* `window` is how the histories are kept: FALSE appends (the program's     *)
(* list); TRUE keeps only the last Window entries, which lets an unbounded  *)
(* run be followed for ever in a finite state space.                        *)

Record(seq, x, window) ==
    IF window /\ Len(seq) >= Window THEN Append(Tail(seq), x) ELSE Append(seq, x)

\* the second run's animate(i): the same generator state gives the same draws
TwinAnimate(i, index1, index2, uBelow, window) ==
    IF twin.active
    THEN \E j1, j2 \in SuccessorIndices(Len(twin.current_state)), vBelow \in BOOLEAN :
            LET r == simulated_annealing(twin.current_state,
                                         Temperature(i, args.reheat), j1, j2, vBelow)
            IN  /\ twin.synced => j1 = index1 /\ j2 = index2
                /\ (twin.synced /\ twin.current_state = current_state) => vBelow = uBelow
                /\ twin' = [twin EXCEPT
                      !.current_state = r.state,
                      !.objective_values = Record(@, r.obj, window),
                      !.tours = Record(@, r.state, window),
                      !.synced = @ /\ (DrawsUniform(twin.current_state, j1, j2)
                                       = DrawsUniform(current_state, index1, index2))]
    ELSE UNCHANGED twin

animate(i, index1, index2, uBelow, window) ==
    /\ window \/ Len(objective_values) < MaxSteps
    /\ next_state' = get_random_successor(current_state, index1, index2)
    /\ \E temp \in {Temperature(i, args.reheat)} :
       \E r \in {simulated_annealing(current_state, temp, index1, index2, uBelow)} :
        /\ temperature' = temp
        /\ current_state' = r.state
        /\ objective_values' = Record(objective_values, r.obj, window)
        /\ tours' = Record(tours, r.state, window)
        /\ TwinAnimate(i, index1, index2, uBelow, window)

\* animate raises on a tour of fewer than 2 points: objective_function indexes
\* state[n-1] of an empty array, and randint(0, 0) has an empty range
AnimateFails ==
    /\ pc = "show"
    /\ Len(current_state) < 2
    /\ pc' = "callback_error"
    /\ UNCHANGED <<args, points, current_state, next_state, objective_values,
                   temperature, frame_seq, initial_state, tours, twin>>

-----------------------------------------------------------------------------
(* Lines 127-133: FuncAnimation(fig, animate, frames, repeat) under         *)
(* plt.show().  No init_func is given, so the animation's initial draw      *)
(* calls animate with the first frame of a fresh frame sequence; after it   *)
(* each timer tick calls animate with the next frame of frame_seq.  When    *)
(* frame_seq is exhausted a repeating animation makes the initial draw      *)
(* again and restarts frame_seq, a non-repeating one stops.                 *)

Frames == IF Truthy(args.iterations) THEN args.iterations.v ELSE args.reheat

Repeat == ~Truthy(args.iterations)

StartAnimationWith(index1, index2, uBelow, window) ==
    /\ pc = "show"
    /\ animate(0, index1, index2, uBelow, window)
    /\ frame_seq' = 0
    /\ pc' = "running"
    /\ UNCHANGED <<args, points, initial_state>>

TimerStepWith(index1, index2, uBelow, window) ==
    /\ pc = "running"
    /\ IF frame_seq < Frames
       THEN /\ animate(frame_seq, index1, index2, uBelow, window)
            /\ frame_seq' = frame_seq + 1
       ELSE /\ Repeat
            /\ animate(0, index1, index2, uBelow, window)
            /\ frame_seq' = 0
    /\ UNCHANGED <<pc, args, points, initial_state>>

StartAnimation ==
    \E index1, index2 \in SuccessorIndices(Len(current_state)), uBelow \in BOOLEAN :
        StartAnimationWith(index1, index2, uBelow, FALSE)

TimerStep ==
    \E index1, index2 \in SuccessorIndices(Len(current_state)), uBelow \in BOOLEAN :
        TimerStepWith(index1, index2, uBelow, FALSE)

AnimationEnds ==
    /\ pc = "running"
    /\ frame_seq >= Frames
    /\ ~Repeat
    /\ pc' = "done"
    /\ UNCHANGED <<args, points, current_state, next_state, objective_values,
                   temperature, frame_seq, initial_state, tours, twin>>

\* the user closes the window: plt.show() returns
CloseWindow ==
    /\ pc = "running"
    /\ pc' = "closed"
    /\ UNCHANGED <<args, points, current_state, next_state, objective_values,
                   temperature, frame_seq, initial_state, tours, twin>>

Next ==
    \/ Validate
    \/ Seed
    \/ LoadPoints
    \/ InitialState
    \/ AnimateFails
    \/ StartAnimation
    \/ TimerStep
    \/ AnimationEnds
    \/ CloseWindow

Spec == Init /\ [][Next]_vars

-----------------------------------------------------------------------------
(* Two runs of one command line, side by side.  Each action above moves the *)
(* second run (twin) with the first; the two runs draw the same values      *)
(* exactly while their generators are in the same state, which is what a    *)
(* call of np.random.seed with the same seed establishes.                   *)

\* the three-point and the one-point file under every seed argument, and the
\* unit square under seed 1
InitSeed ==
    InitWith(ArgSpace({"line3.csv", "one.csv"}, {None}, {Some(1)}, {1}, SeedArgs)
             \cup ArgSpace({"square.csv"}, {None}, {Some(1)}, {1}, {Some(1)}), TRUE)

SpecSeed == InitSeed /\ [][Next]_vars

-----------------------------------------------------------------------------
(* An unbounded run on the unit square that is never closed, followed       *)
(* through a window of its last Window records.                             *)

SquareDraws == SuccessorIndices(Len(FileRows("square.csv")))

InitFair ==
    InitWith(ArgSpace({"square.csv"}, {None}, {None}, 1..MaxReheat, {None}), FALSE)

StartAnimationFair ==
    \E index1, index2 \in SquareDraws, uBelow \in BOOLEAN :
        StartAnimationWith(index1, index2, uBelow, TRUE)

TimerStepFair ==
    \E index1, index2 \in SquareDraws, uBelow \in BOOLEAN :
        TimerStepWith(index1, index2, uBelow, TRUE)

NextFair ==
    \/ Validate
    \/ Seed
    \/ LoadPoints
    \/ InitialState
    \/ StartAnimationFair
    \/ TimerStepFair

\* The timer keeps firing.  Of the fairness of the draws one instance is used:
\* the draw index1 = 0, index2 = 2 with u below the acceptance threshold, which
\* has positive probability at every tick, is drawn again and again.
Fairness ==
    /\ WF_vars(Validate \/ Seed \/ LoadPoints \/ InitialState)
    /\ WF_vars(StartAnimationFair)
    /\ WF_vars(TimerStepWith(0, 2, TRUE, TRUE))

FairSpec == InitFair /\ [][NextFair]_vars /\ Fairness

-----------------------------------------------------------------------------
(* Vocabulary of the properties *)

Range(seq) == {seq[i] : i \in DOMAIN seq}

Count(seq, x) == Cardinality({i \in DOMAIN seq : seq[i] = x})

SameMultiset(s, t) ==
    /\ Len(s) = Len(t)
    /\ \A x \in Range(s) \cup Range(t) : Count(s, x) = Count(t, x)

\* the initial tour exists (line 100 has run)
TourBuilt == pc \in {"show", "running", "done", "closed", "callback_error"}

\* the number of annealing steps performed so far
Steps == Len(objective_values)

\* the tour that was current before step k (k counted from 1)
TourBefore(k) == IF k = 1 THEN initial_state ELSE tours[k - 1]

Less(l1, l2) == Sign(Minus(l1, l2)) < 0

-----------------------------------------------------------------------------
(* C1: after the initial shuffle and any number of annealing steps the      *)
(* current tour has as many elements as the input and the same multiset of  *)
(* coordinates, and so has every candidate get_random_successor returned.   *)
C1_Permutation ==
    TourBuilt =>
        /\ SameMultiset(current_state, points)
        /\ \A k \in 1..Len(tours) : SameMultiset(tours[k], points)
        /\ Steps >= 1 => SameMultiset(next_state, points)

\* a run on points with a repeated coordinate whose tour was reordered and whose
\* last candidate was rejected
C1_Witness ==
    /\ pc = "running"
    /\ Steps >= 2
    /\ Cardinality(Range(points)) < Len(points)
    /\ current_state # initial_state
    /\ next_state # current_state

(* C2: a candidate with a strictly smaller objective value than the current *)
(* tour is returned as the next state, whatever the temperature and the     *)
(* uniform draw.                                                            *)
C2_ImprovingAccepted ==
    Steps >= 1 =>
        (Less(objective_function(next_state), objective_function(TourBefore(Len(tours))))
            => tours[Len(tours)] = next_state)

\* an improving candidate was proposed at temperature 1/2
C2_Witness ==
    /\ Steps >= 1
    /\ temperature = <<1, 2>>
    /\ Less(objective_function(next_state), objective_function(TourBefore(Len(tours))))
    /\ current_state = next_state

(* C9: the k-th recorded objective value is the length of the tour that was *)
(* current before step k (the initial tour for the first step), whether the *)
(* candidate was accepted or rejected; it is not the length of the tour     *)
(* step k emitted.                                                          *)
C9_ObjectiveOfInput ==
    \A k \in 1..Steps : objective_values[k] = objective_function(TourBefore(k))

\* a recorded value that differs from the length of the tour drawn with it
C9_Witness ==
    \E k \in 1..Steps :
        /\ k >= 2
        /\ objective_values[k] # objective_function(tours[k])
        /\ objective_values[k] = objective_function(tours[k - 1])

(* C10: every tour reached from the initial tour keeps the initial tour's   *)
(* elements at its last two positions; with three points no candidate       *)
(* differs from the current tour, so the tour never changes.                *)
C10_LastTwoFixed ==
    (TourBuilt /\ Len(initial_state) >= 2) =>
        LET n == Len(initial_state)
        IN  /\ \A k \in 1..Len(tours) :
                  /\ tours[k][n - 1] = initial_state[n - 1]
                  /\ tours[k][n] = initial_state[n]
            /\ current_state[n - 1] = initial_state[n - 1]
            /\ current_state[n] = initial_state[n]
            /\ (n = 3 /\ Steps >= 1) =>
                  /\ next_state = initial_state
                  /\ current_state = initial_state

\* a five-point tour whose first three positions have all been reordered
C10_Witness ==
    /\ Len(initial_state) = 5
    /\ Steps >= 2
    /\ current_state[1] # initial_state[1]
    /\ current_state[2] # initial_state[2]
    /\ current_state[3] # initial_state[3]

(* C5: an iteration count of 0 or below makes the program take the error    *)
(* exit during validation, before any tour is built or step performed.      *)
C5_NonPositiveIterationsRejected ==
    (args.iterations.set /\ args.iterations.v < 1) =>
        pc \in {"validate", "exit_error", "crashed"}

(* C6: fewer than 3 points, from -n or from the .csv file, are rejected at  *)
(* startup: no initial tour is built and no step performed on them.         *)
C6_FewPointsRejected ==
    (TourBuilt \/ Steps >= 1) => Len(points) >= 3

(* C7: with an iteration count N exactly N steps are performed before the   *)
(* driver is done; without one the driver is never done.                    *)
C7_ExactlyNSteps ==
    pc = "done" => (args.iterations.set /\ Steps = args.iterations.v)

(* C8: the temperature of the k-th step of the run (k from 0) is            *)
(* 1 / ((k mod reheat) + 1).                                                *)
C8_TemperatureOfStep ==
    Steps >= 1 => temperature = <<1, ((Steps - 1) % args.reheat) + 1>>


(* C4: two runs started with the same supplied seed, the same input points  *)
(* and the same configuration produce the same sequence of (tour, objective *)
(* value) pairs, for every integer seed.                                    *)
C4_SeedReproducible ==
    (args.seed.set /\ twin.points = points) =>
        /\ twin.current_state = current_state
        /\ twin.tours = tours
        /\ twin.objective_values = objective_values

-----------------------------------------------------------------------------
(* The unit square *)

Four == <<4, 0>>

Len4 == TourBuilt /\ objective_function(current_state) = Four

\* the last two elements of the initial shuffle are adjacent corners
AdjLast == TourBuilt /\ calculate_distance(initial_state[3], initial_state[4]) = <<1, 0>>

(* C3 as stated: on the unit square, from every initial shuffle and under   *)
(* fair draws, the run eventually reaches a tour of length 4.0, and from    *)
(* then on the length is 4.0 at every later iteration.                      *)
C3_ReachesAndStays == <>Len4 /\ [](Len4 => []Len4)

(* C3 as amended: on the unit square, under fair draws in a run without an  *)
(* iteration count, a run whose initial shuffle ends in two adjacent        *)
(* corners reaches a tour of length 4.0 again and again but also leaves it  *)
(* again and again; a run whose initial shuffle ends in two opposite        *)
(* corners never has a tour of length 4.0.                                  *)
C3_ReachesOnlyIfAdjacentAndLeaves ==
    /\ [](AdjLast => <>Len4)
    /\ [](AdjLast => <>(TourBuilt /\ ~Len4))
    /\ [](TourBuilt /\ ~AdjLast => ~Len4)

\* a tour of length 4.0 was current and the step after it moved to a longer one
C3_Witness ==
    /\ pc = "running"
    /\ AdjLast
    /\ Len(tours) >= 2
    /\ objective_function(tours[Len(tours) - 1]) = Four
    /\ ~Len4

====
